---------------------------- MODULE Spec2Model ----------------------------
(***************************************************************************)
(* A model of the medical chatbot service: the Flask routes of app.py, the *)
(* JWT middleware of middleware/auth.py and the answer cache of            *)
(* src/cache_manager.py.                                                   *)
(*                                                                         *)
(* Text is modelled as a sequence of atoms (one-character strings, or a    *)
(* word that the code treats as a unit such as "Bearer").  An optional     *)
(* value (a header, a form field, Python's None) is a record               *)
(* [has |-> BOOLEAN, val |-> text].                                        *)
(***************************************************************************)
EXTENDS Integers, Sequences, FiniteSets, TLC

VARIABLES
    session,     \* flask session['chat_session_id'] of the one browser modelled
    req,         \* the request the last handler served, with the outcomes of its outbound calls
    resp,        \* the response of the last handler
    calls,       \* the outbound calls the last handler issued, in order
    user_id,     \* the identity the last handler resolved for its request
    mw,          \* the last request/response of a handler wrapped by authenticate_user
    FUZZY_LIB,   \* the fuzzy matching library the process imported, "none" without one
    cache_data,  \* CacheManager.cache_data
    cache_file,  \* the backing JSON document: [exists, valid, text]
    last,        \* the last cache operation and its result
    threads,     \* each request thread's position in its add_to_cache call, and its locals
    hist         \* what has happened so far: calls overlapped, a rewrite failed

vars ==
    <<session, req, resp, calls, user_id, mw, FUZZY_LIB, cache_data, cache_file, last,
      threads, hist>>

webVars == <<session, req, resp, calls, user_id>>
raceVars == <<threads, hist>>
cacheVars == <<FUZZY_LIB, cache_data, cache_file, last, raceVars>>

-----------------------------------------------------------------------------
(* Python str operations, on sequences of atoms *)

SP == " "

None == [has |-> FALSE, val |-> <<>>]
Some(v) == [has |-> TRUE, val |-> v]

\* Python truthiness of an optional string: None and "" are falsy
Truthy(o) == o.has /\ o.val # <<>>

\* dict.get(key) / request.args.get(key): the value, None when absent
Get(o) == IF o.has THEN o ELSE None

RECURSIVE LStrip(_)
LStrip(s) == IF s # <<>> /\ Head(s) = SP THEN LStrip(Tail(s)) ELSE s

RECURSIVE RStrip(_)
RStrip(s) ==
    IF s # <<>> /\ s[Len(s)] = SP THEN RStrip(SubSeq(s, 1, Len(s) - 1)) ELSE s

\* str.strip()
Strip(s) == RStrip(LStrip(s))

IsPrefix(p, s) == Len(p) <= Len(s) /\ SubSeq(s, 1, Len(p)) = p

\* str.replace(old, ''): every non-overlapping occurrence of old removed, left to right
RECURSIVE Remove(_, _)
Remove(s, old) ==
    IF s = <<>> THEN <<>>
    ELSE IF IsPrefix(old, s) THEN Remove(SubSeq(s, Len(old) + 1, Len(s)), old)
    ELSE <<Head(s)>> \o Remove(Tail(s), old)

\* str.split(" "): the segments between single spaces, empty segments kept
RECURSIVE SplitSp(_, _)
SplitSp(s, cur) ==
    IF s = <<>> THEN <<cur>>
    ELSE IF Head(s) = SP THEN <<cur>> \o SplitSp(Tail(s), <<>>)
    ELSE SplitSp(Tail(s), Append(cur, Head(s)))

Split(s) == SplitSp(s, <<>>)


-----------------------------------------------------------------------------
(* Bearer tokens.  A token is one atom of a header; JwtOf gives what PyJWT  *)
(* finds in it: whether it parses, its alg, the key that signed it, whether *)
(* its exp has passed, and the claims of its payload.                       *)

U1 == <<"u", "1">>
U2 == <<"u", "2">>

Jwt(wf, alg, key, expired, id, userId, uid) ==
    [wellformed |-> wf, alg |-> alg, key |-> key, expired |-> expired,
     claims |-> [id |-> id, userId |-> userId, uid |-> uid]]

TokenNames ==
    {"tId", "tUser", "tUid", "tBoth", "tEmpty", "tNoClaim", "tExpired",
     "tWrong", "tAlg", "tJunk"}

\* the secret the companion backend signs with, and a secret nobody configured
SharedKey == "k1"
WrongKey == "k9"

JwtOf(t) ==
    CASE t = "tId"      -> Jwt(TRUE, "HS256", SharedKey, FALSE, Some(U1), None, None)
      [] t = "tUser"    -> Jwt(TRUE, "HS256", SharedKey, FALSE, None, Some(U1), None)
      [] t = "tUid"     -> Jwt(TRUE, "HS256", SharedKey, FALSE, None, None, Some(U2))
      [] t = "tBoth"    -> Jwt(TRUE, "HS256", SharedKey, FALSE, Some(<<>>), Some(<<>>), Some(U2))
      [] t = "tEmpty"   -> Jwt(TRUE, "HS256", SharedKey, FALSE, None, Some(<<>>), Some(<<>>))
      [] t = "tNoClaim" -> Jwt(TRUE, "HS256", SharedKey, FALSE, None, None, None)
      [] t = "tExpired" -> Jwt(TRUE, "HS256", SharedKey, TRUE, Some(U1), Some(U1), None)
      [] t = "tWrong"   -> Jwt(TRUE, "HS256", WrongKey, FALSE, Some(U1), Some(U1), None)
      [] t = "tAlg"     -> Jwt(TRUE, "HS512", SharedKey, FALSE, Some(U1), Some(U1), None)
      [] OTHER          -> Jwt(FALSE, "", "", FALSE, None, None, None)

NoClaims == [id |-> None, userId |-> None, uid |-> None]

\* a decode that does not verify the signature
jwt_decode_unverified(token, secret) ==
    LET j == IF Len(token) = 1 THEN JwtOf(token[1]) ELSE JwtOf("")
    IN  IF ~j.wellformed THEN [raised |-> "DecodeError", payload |-> NoClaims]
        ELSE IF j.alg # "HS256"
            THEN [raised |-> "InvalidAlgorithmError", payload |-> NoClaims]
        ELSE IF j.expired
            THEN [raised |-> "ExpiredSignatureError", payload |-> NoClaims]
        ELSE [raised |-> "", payload |-> j.claims]

\* jwt.decode(token, secret, algorithms=["HS256"]): the payload, or the exception
\* raised.  PyJWT checks the structure, then the algorithm, then the signature,
\* then exp.  A string that is not exactly one token does not parse.
jwt_decode(token, secret) ==
    LET j == IF Len(token) = 1 THEN JwtOf(token[1]) ELSE JwtOf("")
    IN  IF ~j.wellformed THEN [raised |-> "DecodeError", payload |-> NoClaims]
        ELSE IF j.alg # "HS256"
            THEN [raised |-> "InvalidAlgorithmError", payload |-> NoClaims]
        ELSE IF j.key # secret
            THEN [raised |-> "InvalidSignatureError", payload |-> NoClaims]
        ELSE IF j.expired
            THEN [raised |-> "ExpiredSignatureError", payload |-> NoClaims]
        ELSE [raised |-> "", payload |-> j.claims]

\* ExpiredSignatureError is the one subclass of InvalidTokenError caught first
IsInvalidTokenError(e) ==
    e \in {"DecodeError", "InvalidAlgorithmError", "InvalidSignatureError"}

\* the Authorization headers a client sends: none, and texts around a token
NoHeader == None
HeaderTexts ==
    {<<>>, <<"Bearer">>, <<"Bearer", SP>>}
    \cup {<<"Bearer", SP, t>> : t \in TokenNames}
    \cup {<<t>> : t \in {"tId", "tUser"}}
    \cup {<<"Basic", SP, t>> : t \in {"tUser"}}
    \cup {<<"Bearer", SP, SP, t>> : t \in {"tUser"}}
    \cup {<<"Bearer", SP, t, SP>> : t \in {"tUid", "tWrong"}}
Headers == {NoHeader} \cup {Some(h) : h \in HeaderTexts}

-----------------------------------------------------------------------------
(* middleware/auth.py *)

JWT_SECRET == SharedKey

Json(status, keys, text) ==
    [status |-> status, ctype |-> "application/json", keys |-> keys,
     text |-> text, sid |-> None]

\* the handler the decorator wraps: it runs, and answers 200
WrappedOk == Json(200, {"handled"}, <<>>)

Unauthorized(error) == Json(401, {"success:false", "error"}, <<error>>)

\* a decorator that lets a token without userId/_id through
authenticate_user_any_claims(header) ==
    LET segs == Split(header.val)
        noSecond == header.has /\ Len(segs) < 2
        token == IF header.has /\ Len(segs) >= 2 THEN segs[2] ELSE <<>>
        d == jwt_decode(token, JWT_SECRET)
        uid == IF Truthy(Get(d.payload.userId)) THEN d.payload.userId
               ELSE Get(d.payload.uid)
        reject(e) == [invoked |-> FALSE, user_id |-> None, resp |-> Unauthorized(e)]
    IN  IF noSecond THEN reject("Invalid token format")
        ELSE IF token = <<>> THEN reject("Token is missing")
        ELSE IF d.raised = "ExpiredSignatureError" THEN reject("Token has expired")
        ELSE IF IsInvalidTokenError(d.raised) THEN reject("Invalid token: detail")
        ELSE [invoked |-> TRUE, user_id |-> uid, resp |-> WrappedOk]

\* decorated_function: [invoked, user_id, resp]
authenticate_user(header) ==
    LET segs == Split(header.val)
        noSecond == header.has /\ Len(segs) < 2
        token == IF header.has /\ Len(segs) >= 2 THEN segs[2] ELSE <<>>
        d == jwt_decode(token, JWT_SECRET)
        uid == IF Truthy(Get(d.payload.userId)) THEN d.payload.userId
               ELSE Get(d.payload.uid)
        reject(e) == [invoked |-> FALSE, user_id |-> None, resp |-> Unauthorized(e)]
    IN  IF noSecond THEN reject("Invalid token format")
        ELSE IF token = <<>> THEN reject("Token is missing")
        ELSE IF d.raised = "ExpiredSignatureError" THEN reject("Token has expired")
        ELSE IF IsInvalidTokenError(d.raised) THEN reject("Invalid token: detail")
        ELSE IF ~Truthy(uid) THEN reject("Invalid token")
        ELSE [invoked |-> TRUE, user_id |-> uid, resp |-> WrappedOk]

\* a request to a route wrapped by authenticate_user
decorated_function ==
    \E h \in Headers :
        /\ mw' = [header |-> h] @@ authenticate_user(h)
        /\ UNCHANGED <<webVars, cacheVars>>

-----------------------------------------------------------------------------
(* app.py: identity, persistence forwarding, answer computation *)

Anonymous == <<"anonymous">>

\* extract_user_id_from_token; secret is ACCESS_TOKEN_SECRET, None when the
\* environment does not set it
extract_user_id_from_token(header, secret) ==
    LET token == Strip(Remove(header.val, <<"Bearer", SP>>))
        d == jwt_decode(token, secret.val[1])
    IN  IF ~Truthy(header) THEN Anonymous
        ELSE IF token = <<>> \/ ~secret.has THEN Anonymous
        ELSE IF d.raised # "" THEN Anonymous
        ELSE IF Truthy(Get(d.payload.id)) THEN d.payload.id.val
        ELSE Anonymous

\* token = auth_header.replace('Bearer ', '').strip() if auth_header else None
bearer_token(header) ==
    IF Truthy(header) THEN Some(Strip(Remove(header.val, <<"Bearer", SP>>))) ELSE None

\* one outbound call: what was sent, what the far side did (outcome), and what the
\* calling function gave back to the handler (raised, result)
Call(op, sender, text, audio, sid, token, outcome, raised, result) ==
    [op |-> op, sender |-> sender, text |-> text, audio |-> audio, sid |-> sid,
     token |-> token, outcome |-> outcome, raised |-> raised, result |-> result]

SessionIdOr(session_id) ==
    IF Truthy(session_id) THEN session_id.val ELSE <<"default-session">>

\* what the companion backend (or the network) does with one save request
\* ("timeout" stands for every exception requests.post raises: a timeout, a
\* refused connection; they take the same except clause)
SaveOutcomes == {"200", "500", "timeout"}

save_raises(sender, text, audio, session_id, token, outcome) ==
    LET raised == outcome = "timeout"
        result == IF outcome = "200" THEN Some(<<"saved">>) ELSE None
    IN  [raised |-> raised, result |-> result,
         call |-> Call("save", sender, text, audio, SessionIdOr(session_id),
                       IF Truthy(token) THEN token ELSE None, outcome, raised, result)]

\* save_message_to_node: [raised, result, call]; every exception of the post is
\* caught, and a status other than 200/201 gives None
save_message_to_node(sender, text, audio, session_id, token, outcome) ==
    LET result == IF outcome = "200" THEN Some(<<"saved">>) ELSE None
    IN  [raised |-> FALSE, result |-> result,
         call |-> Call("save", sender, text, audio, SessionIdOr(session_id),
                       IF Truthy(token) THEN token ELSE None, outcome, FALSE, result)]

RagOutcomes == {"ok", "error"}

AiApology == <<"I apologize, but I'm having trouble generating a response right now. Please try again.">>

\* rag_chain.invoke({"input": m})["answer"]
RagAnswer(m) == <<"answer to:">> \o m

\* an answer computation that lets the pipeline's exception out
get_ai_response_raises(user_message, outcome) ==
    LET text == IF outcome = "ok" THEN RagAnswer(user_message) ELSE AiApology
    IN  [raised |-> outcome = "error", text |-> text,
         call |-> Call("rag", "", user_message, None, <<>>, None, outcome,
                       outcome = "error", Some(text))]

\* get_ai_response: [raised, text, call]; the except clause returns the apology
get_ai_response(user_message, outcome) ==
    LET text == IF outcome = "ok" THEN RagAnswer(user_message) ELSE AiApology
    IN  [raised |-> FALSE, text |-> text,
         call |-> Call("rag", "", user_message, None, <<>>, None, outcome, FALSE,
                       Some(text))]

\* an exception no handler catches: Flask answers through internal_error
internal_error ==
    [status |-> 500, ctype |-> "application/json",
     keys |-> {"success:false", "error", "message"},
     text |-> <<"Internal Server Error">>, sid |-> None]

\* str(e): the text of the exception a handler caught
ExceptionText == <<"str(e)">>

\* werkzeug's answer to an HTTPException raised in a view: an HTML error page
http_exception(status) ==
    [status |-> status, ctype |-> "text/html", keys |-> {}, text |-> <<>>, sid |-> None]

-----------------------------------------------------------------------------
(* app.py: GET|POST /get *)

Msgs == {None, Some(<<>>), Some(<<"f", "l", "u">>)}
SessionIds == {None, Some(<<"s", "1">>)}
HexDigits == {"0", "1", "2", "3", "4", "5", "6", "7", "8", "9", "a", "b", "c", "d", "e", "f"}

\* secrets.token_hex(nbytes): two hex digits a byte; digit stands for the bytes drawn
token_hex(nbytes, digit) == [i \in 1..(2 * nbytes) |-> digit]

GenIds == {token_hex(8, "a")}

\* a JSON body is an object, another JSON value (null, a list) or not JSON
JsonKinds == {"object", "null", "list", "malformed"}

\* the body of a POST: none at all, or what JsonKinds lists
BodyKinds == JsonKinds \cup {"absent"}

\* a handler that takes the caller's session_id whenever one is supplied
establish_from_caller(sess, session_id, gen) ==
    IF Truthy(session_id) THEN session_id
    ELSE IF Truthy(sess) THEN sess ELSE Some(gen)

\* session id established by this request: reused when the cookie holds one
establish(sess, session_id, gen) ==
    IF Truthy(sess) THEN sess
    ELSE IF Truthy(session_id) THEN session_id ELSE Some(gen)

\* chat: [resp, calls, session] for request r and the cookie value sess
chat_run(sess, r) ==
    LET uid == extract_user_id_from_token(r.header, r.secret)
        token == bearer_token(r.header)
        json == r.method = "POST" /\ r.is_json
        msg == Get(r.msg)
        session_id == Get(r.session_id)
        sess1 == establish(sess, session_id, r.gen)
        s1 == save_message_to_node("user", msg.val, None, sess1, token, r.save1)
        a == get_ai_response(msg.val, r.rag)
        s2 == save_message_to_node("bot", a.text, None, sess1, token, r.save2)
        out(rs, cs, se) == [resp |-> rs, calls |-> cs, session |-> se, user_id |-> uid]
    IN  IF json /\ r.json = "malformed" THEN out(http_exception(400), <<>>, sess)
        ELSE IF json /\ r.json # "object" THEN out(internal_error, <<>>, sess)
        ELSE IF ~Truthy(msg)
            THEN out(Json(400, {"error"}, <<"No message provided">>), <<>>, sess)
        ELSE IF s1.raised THEN out(internal_error, <<s1.call>>, sess1)
        ELSE IF a.raised THEN out(internal_error, <<s1.call, a.call>>, sess1)
        ELSE IF s2.raised THEN out(internal_error, <<s1.call, a.call, s2.call>>, sess1)
        ELSE out([status |-> 200, ctype |-> "application/json",
                  keys |-> {"answer", "session_id"}, text |-> a.text, sid |-> sess1],
                 <<s1.call, a.call, s2.call>>, sess1)

\* a request's Authorization header, and the process's ACCESS_TOKEN_SECRET
Ctx(h, k) == [header |-> h, secret |-> k]
Configured == Some(<<SharedKey>>)
ChatContexts ==
    {Ctx(NoHeader, Configured), Ctx(Some(<<"Bearer", SP, "tId">>), Configured),
     Ctx(Some(<<"Bearer", SP, "tId">>), None),
     Ctx(Some(<<"Bearer", SP, "tWrong">>), Configured),
     Ctx(Some(<<"tId">>), Configured)}

\* the ways /get is sent its fields: the query string, a form body, a JSON body
ChatShapes ==
    [method : {"GET"}, is_json : {FALSE}, json : {"object"}]
    \cup [method : {"POST"}, is_json : {FALSE}, json : {"object"}]
    \cup [method : {"POST"}, is_json : {TRUE}, json : JsonKinds]

\* the outcomes of the outbound calls matter only to a request that issues them
ChatOutcomes(shape, msg) ==
    IF Truthy(msg) /\ shape.json = "object"
    THEN [save1 : SaveOutcomes, rag : RagOutcomes, save2 : SaveOutcomes]
    ELSE [save1 : {"200"}, rag : {"ok"}, save2 : {"200"}]

\* a non-object JSON body has no fields
ChatFields(shape) ==
    IF shape.json = "object" THEN [msg : Msgs, session_id : SessionIds]
    ELSE [msg : {None}, session_id : {None}]

ChatRequestsOf(contexts, shapes) ==
    UNION {UNION {{[route |-> "get", gen |-> g] @@ c @@ sh @@ f @@ o :
                     g \in GenIds, c \in contexts, o \in ChatOutcomes(sh, f.msg)} :
                  f \in ChatFields(sh)} :
           sh \in shapes}

ChatRequests == ChatRequestsOf(ChatContexts, ChatShapes)

chat_on(requests) ==
    \E r \in requests :
        LET o == chat_run(session, r)
        IN  /\ req' = r
            /\ resp' = o.resp
            /\ calls' = o.calls
            /\ session' = o.session
            /\ user_id' = o.user_id
            /\ UNCHANGED <<mw, cacheVars>>

chat == chat_on(ChatRequests)

-----------------------------------------------------------------------------
(* src/voice_handler.py, as app.py uses it *)

\* what the transcription provider does with one upload: a transcript, a
\* response without speech, a status other than 200, or no response in time
SttOutcomes == {"text", "empty", "500", "timeout"}

Transcript == <<"f", "l", "u">>

\* speech_to_text: [raised, result, calls]; result is the dict (has) with its
\* text, or None.  No audio: None without a request.  Every exception is caught.
speech_to_text(audio_data, outcome) ==
    LET result ==
            IF outcome = "text" THEN Some(Transcript)
            ELSE IF outcome = "empty" THEN Some(<<>>) ELSE None
    IN  IF ~Truthy(audio_data) THEN [raised |-> FALSE, result |-> None, calls |-> <<>>]
        ELSE [raised |-> FALSE, result |-> result,
              calls |-> <<Call("stt", "", <<>>, audio_data, <<>>, None, outcome,
                               FALSE, result)>>]

\* what gTTS does with one synthesis: audio, or an exception (no network, a
\* language it does not know)
TtsOutcomes == {"ok", "error"}

\* _gtts_tts: [result, calls]; every exception is caught
gtts_tts(text, language, outcome) ==
    LET result == IF outcome = "ok" THEN Some(<<"tts-b64">>) ELSE None
    IN  [result |-> result,
         calls |-> <<[language |-> language]
                     @@ Call("tts", "", text, None, <<>>, None, outcome, FALSE, result)>>]

\* candidate_models, in the order the loop takes them
Voices == <<"Fritz-PlayAI", "Bryan-PlayAI", "Aria-PlayAI">>

\* what the premium provider does with one request: audio, a 200 without
\* content, another status, or no response in time
GroqOutcomes == {"200", "200-empty", "500", "timeout"}

\* one requests.post of the loop; on a 200 the result is the base64 of
\* response.content
GroqCall(text, voice, outcome) ==
    [voice |-> voice]
    @@ Call("groq_tts", "", text, None, <<>>, None, outcome, outcome = "timeout",
            CASE outcome = "200" -> Some(<<"groq-b64", voice>>)
              [] outcome = "200-empty" -> Some(<<>>)
              [] OTHER -> None)

\* a loop that goes on after a 200 and keeps the last audio it got
RECURSIVE groq_tts_no_return(_, _, _, _)
groq_tts_no_return(text, outcomes, i, acc) ==
    IF i > Len(Voices) THEN acc
    ELSE LET c == GroqCall(text, Voices[i], outcomes[i])
         IN  groq_tts_no_return(text, outcomes, i + 1,
                 [result |-> IF c.result.has THEN c.result ELSE acc.result,
                  calls |-> Append(acc.calls, c)])

\* _groq_tts from candidate i on: [result, calls]; outcomes[i] is what the
\* provider does with the request for Voices[i].  The first 200 returns.
RECURSIVE groq_tts(_, _, _, _)
groq_tts(text, outcomes, i, acc) ==
    IF i > Len(Voices) THEN acc
    ELSE LET c == GroqCall(text, Voices[i], outcomes[i])
         IN  IF c.result.has
             THEN [result |-> c.result, calls |-> Append(acc.calls, c)]
             ELSE groq_tts(text, outcomes, i + 1,
                           [result |-> None, calls |-> Append(acc.calls, c)])

\* text_to_speech(text, language, use_groq): [result, calls]
text_to_speech_result(text, language, use_groq, groq, gtts) ==
    LET g == groq_tts(text, groq, 1, [result |-> None, calls |-> <<>>])
        u == gtts_tts(text, language, gtts)
    IN  IF text = <<>> THEN [result |-> None, calls |-> <<>>]
        ELSE IF use_groq /\ language = "en"
            THEN IF Truthy(g.result) THEN g
                 ELSE [result |-> u.result, calls |-> g.calls \o u.calls]
        ELSE u

\* text_to_speech(text), as app.py calls it: language 'en', use_groq unset;
\* [raised, result, calls]
text_to_speech(text, outcome) ==
    LET o == text_to_speech_result(text, "en", FALSE, <<"500", "500", "500">>, outcome)
    IN  [raised |-> FALSE, result |-> o.result, calls |-> o.calls]

\* one call of text_to_speech
text_to_speech_call ==
    /\ last.op = "text_to_speech"
    /\ ~last.done
    /\ LET o == text_to_speech_result(last.text, last.language, last.use_groq,
                                      last.groq, last.gtts)
       IN  /\ last' = [last EXCEPT !.done = TRUE, !.result = o.result]
           /\ calls' = o.calls
    /\ UNCHANGED <<session, req, resp, user_id, mw, FUZZY_LIB, cache_data, cache_file, raceVars>>

-----------------------------------------------------------------------------
(* app.py: POST /whatsapp *)

Xml(message) ==
    [status |-> 200, ctype |-> "text/xml",
     keys |-> IF message.has THEN {"Message"} ELSE {},
     text |-> message.val, sid |-> None]

VoiceApology == <<"Sorry, I couldn't process your voice message. Please try sending a text message instead or try recording again.">>
WebhookApology == <<"Sorry, something went wrong. Please try again later.">>

\* str.lower(), on the atoms the media types are made of
Lower(s) == [i \in 1..Len(s) |-> IF s[i] = "AUDIO" THEN "audio" ELSE s[i]]

\* 'audio' in s
HasAudio(s) == \E i \in 1..Len(s) : s[i] = "audio"

DownloadOutcomes == {"200", "404", "timeout"}

\* requests.get(media_url, auth=auth, timeout=30): [raised, status, content, call]
requests_get(url, outcome) ==
    [raised |-> outcome = "timeout",
     status |-> IF outcome = "404" THEN 404 ELSE 200,
     content |-> <<"b64">>,
     call |-> Call("download", "", url, None, <<>>, None, outcome, outcome = "timeout",
                   None)]

Reply(rs, cs) == [resp |-> rs, calls |-> cs]

\* except Exception as voice_error: the reply of the voice branch's own handler
on_voice_error_unhandled(cs) == Reply(internal_error, cs)

on_voice_error(cs) == Reply(Xml(Some(VoiceApology)), cs)

\* except Exception as e: the reply of the webhook's outermost handler
on_webhook_error(cs) == Reply(Xml(Some(WebhookApology)), cs)

\* a voice branch that takes whatever the transcription returned
whatsapp_voice_unchecked(r, session_id) ==
    LET dl == requests_get(r.MediaUrl0, r.download)
        audio_base64 == Some(dl.content)
        st == speech_to_text(audio_base64, r.stt)
        user_text == st.result.val
        s1 == save_message_to_node("user", user_text, audio_base64, session_id, None, r.save1)
        a == get_ai_response(user_text, r.rag)
        s2 == save_message_to_node("bot", a.text, None, session_id, None, r.save2)
        c1 == <<dl.call>>
        c2 == c1 \o st.calls
        c3 == Append(c2, s1.call)
        c4 == Append(c3, a.call)
        c5 == Append(c4, s2.call)
    IN  IF dl.raised \/ dl.status # 200 THEN on_voice_error(c1)
        ELSE IF s1.raised THEN on_voice_error(c3)
        ELSE IF a.raised THEN on_voice_error(c4)
        ELSE IF s2.raised THEN on_voice_error(c5)
        ELSE Reply(Xml(Some(<<"You said: *">> \o user_text \o <<"*\n\n">> \o a.text)), c5)

\* the voice branch, from the download to the reply
whatsapp_voice(r, session_id) ==
    LET dl == requests_get(r.MediaUrl0, r.download)
        audio_base64 == Some(dl.content)
        st == speech_to_text(audio_base64, r.stt)
        user_text == st.result.val
        s1 == save_message_to_node("user", user_text, audio_base64, session_id, None, r.save1)
        a == get_ai_response(user_text, r.rag)
        s2 == save_message_to_node("bot", a.text, None, session_id, None, r.save2)
        c1 == <<dl.call>>
        c2 == c1 \o st.calls
        c3 == Append(c2, s1.call)
        c4 == Append(c3, a.call)
        c5 == Append(c4, s2.call)
    IN  IF dl.raised \/ dl.status # 200 THEN on_voice_error(c1)
        ELSE IF st.raised \/ ~Truthy(st.result) THEN on_voice_error(c2)
        ELSE IF s1.raised THEN on_voice_error(c3)
        ELSE IF a.raised THEN on_voice_error(c4)
        ELSE IF s2.raised THEN on_voice_error(c5)
        ELSE Reply(Xml(Some(<<"You said: *">> \o user_text \o <<"*\n\n">> \o a.text)), c5)

\* the text branch
whatsapp_text(r, incoming_msg, session_id) ==
    LET s1 == save_message_to_node("user", incoming_msg, None, session_id, None, r.save1)
        a == get_ai_response(incoming_msg, r.rag)
        s2 == save_message_to_node("bot", a.text, None, session_id, None, r.save2)
    IN  IF s1.raised THEN on_webhook_error(<<s1.call>>)
        ELSE IF a.raised THEN on_webhook_error(<<s1.call, a.call>>)
        ELSE IF s2.raised THEN on_webhook_error(<<s1.call, a.call, s2.call>>)
        ELSE Reply(Xml(Some(a.text)), <<s1.call, a.call, s2.call>>)

\* media_url and media_type and 'audio' in media_type.lower()
IsVoice(r) ==
    r.MediaUrl0 # <<>> /\ r.MediaContentType0 # <<>> /\ HasAudio(Lower(r.MediaContentType0))

\* a webhook that looks at the text body before it looks at the media
whatsapp_run_text_first(r) ==
    LET incoming_msg == Strip(r.Body)
        user_phone == Remove(r.From, <<"whatsapp:">>)
        session_id == Some(<<"whatsapp_">> \o user_phone)
    IN  IF r.formError THEN on_webhook_error(<<>>)
        ELSE IF incoming_msg # <<>> THEN whatsapp_text(r, incoming_msg, session_id)
        ELSE IF IsVoice(r) THEN whatsapp_voice(r, session_id)
        ELSE Reply(Xml(None), <<>>)

\* whatsapp_webhook: [resp, calls]
whatsapp_run(r) ==
    LET incoming_msg == Strip(r.Body)
        user_phone == Remove(r.From, <<"whatsapp:">>)
        session_id == Some(<<"whatsapp_">> \o user_phone)
    IN  IF r.formError THEN on_webhook_error(<<>>)
        ELSE IF IsVoice(r) THEN whatsapp_voice(r, session_id)
        ELSE IF incoming_msg # <<>> THEN whatsapp_text(r, incoming_msg, session_id)
        ELSE Reply(Xml(None), <<>>)

Bodies == {<<>>, <<SP>>, <<SP, "h", "i", SP>>}
Froms == {<<"whatsapp:", "+", "1">>, <<"+", "1">>}
\* MediaUrl0 and MediaContentType0: no media, an image, a voice note (in any case)
Medias ==
    {[MediaUrl0 |-> <<>>, MediaContentType0 |-> <<>>],
     [MediaUrl0 |-> <<"url">>, MediaContentType0 |-> <<"image", "/png">>],
     [MediaUrl0 |-> <<"url">>, MediaContentType0 |-> <<"audio", "/ogg">>],
     [MediaUrl0 |-> <<"url">>, MediaContentType0 |-> <<"AUDIO", "/ogg">>]}

\* the outcomes of the outbound calls matter only to a request that reaches them
WhatsappOutcomes(b, m) ==
    LET saves == [save1 : SaveOutcomes, rag : RagOutcomes, save2 : SaveOutcomes]
        none == [save1 : {"200"}, rag : {"ok"}, save2 : {"200"}]
        nodl == [download : {"200"}, stt : {"text"}]
    IN  IF IsVoice(m)
        THEN {d @@ o : d \in [download : {"404", "timeout"}, stt : {"text"}], o \in none}
             \cup {d @@ o : d \in [download : {"200"}, stt : SttOutcomes \ {"text"}], o \in none}
             \cup {d @@ o : d \in nodl, o \in saves}
        ELSE IF Strip(b) # <<>> THEN {d @@ o : d \in nodl, o \in saves}
        ELSE {d @@ o : d \in nodl, o \in none}

WhatsappRequests ==
    UNION {UNION {{[route |-> "whatsapp", formError |-> FALSE, Body |-> b, From |-> f]
                       @@ m @@ o : f \in Froms, o \in WhatsappOutcomes(b, m)} :
                  m \in Medias} :
           b \in Bodies}
    \cup {[route |-> "whatsapp", formError |-> TRUE, Body |-> <<>>, From |-> <<>>,
           MediaUrl0 |-> <<>>, MediaContentType0 |-> <<>>, download |-> "200",
           stt |-> "text", save1 |-> "200", rag |-> "ok", save2 |-> "200"]}

whatsapp_webhook ==
    \E r \in WhatsappRequests :
        LET o == whatsapp_run(r)
        IN  /\ req' = r
            /\ resp' = o.resp
            /\ calls' = o.calls
            /\ user_id' = Remove(r.From, <<"whatsapp:">>)
            /\ UNCHANGED <<session, mw, cacheVars>>

-----------------------------------------------------------------------------
(* app.py: POST /whatsapp/send *)

WhatsappPrefix == <<"whatsapp:">>

\* what the messaging provider does with one messages.create: it takes the
\* message (and reports its status), or the call raises
SendOutcomes == {"queued", "accepted", "rest_error", "timeout"}

\* twilio_client.messages.create(body, from_, to): [raised, sid, status, call]
messages_create(body, to, outcome) ==
    LET raised == outcome \in {"rest_error", "timeout"}
    IN  [raised |-> raised, sid |-> <<"SM1">>, status |-> <<outcome>>,
         call |-> [op |-> "send", to |-> to, text |-> body, outcome |-> outcome,
                   raised |-> raised]]

\* except Exception as e: return jsonify({"error": str(e)}), 500
on_send_error(cs) == Reply(Json(500, {"error"}, ExceptionText), cs)

\* to_number with the prefix put in front unless it starts with it
with_prefix(to_number) ==
    IF IsPrefix(WhatsappPrefix, to_number) THEN to_number
    ELSE WhatsappPrefix \o to_number

\* send_whatsapp_message: [resp, calls].  The client is tested before the body is
\* read; request.get_json() raises on a body that is absent or is not JSON, and
\* data.get raises on a JSON value that is no object; both inside the try.
send_run(r) ==
    LET to_number == Get(r.to)
        message == Get(r.message)
        m == messages_create(message.val, with_prefix(to_number.val), r.send)
    IN  IF ~r.twilio_client
            THEN Reply(Json(500, {"error"}, <<"Twilio not configured">>), <<>>)
        ELSE IF r.body # "object" THEN on_send_error(<<>>)
        ELSE IF ~Truthy(to_number) \/ ~Truthy(message)
            THEN Reply(Json(400, {"error"}, <<"Missing 'to' or 'message'">>), <<>>)
        ELSE IF m.raised THEN on_send_error(<<m.call>>)
        ELSE Reply([status |-> 200, ctype |-> "application/json",
                    keys |-> {"success", "message_sid", "status"},
                    text |-> m.status, sid |-> None], <<m.call>>)

\* the fields of the body: a non-object JSON body has none
SendFields(kind) ==
    IF kind = "object"
    THEN [to : {None, Some(<<>>), Some(<<"+", "1">>), Some(<<"whatsapp:", "+", "1">>),
                Some(<<"+", "2">>), Some(<<"whatsapp:">>), Some(<<"Whatsapp:", "+", "1">>)},
          message : {None, Some(<<>>), Some(<<"h", "i">>), Some(<<SP>>),
                     Some(<<"f", "l", "u">>)}]
    ELSE [to : {None}, message : {None}]

\* the outcome of the send matters only to a request that reaches it
SendRequests ==
    UNION {UNION {{[route |-> "whatsapp/send", twilio_client |-> c, body |-> k,
                    send |-> o] @@ f :
                     o \in IF c /\ Truthy(f.to) /\ Truthy(f.message) THEN SendOutcomes
                           ELSE {"queued"}} :
                  f \in SendFields(k), c \in BOOLEAN} :
           k \in BodyKinds}

send_whatsapp_message ==
    \E r \in SendRequests :
        LET o == send_run(r)
        IN  /\ req' = r
            /\ resp' = o.resp
            /\ calls' = o.calls
            /\ UNCHANGED <<session, user_id, mw, cacheVars>>

-----------------------------------------------------------------------------
(* app.py: POST /voice-chat *)

\* except Exception as e: return jsonify({"error": str(e)}), 500
on_voice_chat_error(cs, se) ==
    [resp |-> Json(500, {"error"}, ExceptionText), calls |-> cs, session |-> se]

\* voice_chat: [resp, calls, session].  request.get_json() raises on a body that
\* is absent or is not JSON, and data.get raises on a JSON value that is no object;
\* both inside the try.
voice_chat_run(sess, r) ==
    LET token == bearer_token(r.header)
        audio_base64 == Get(r.audio)
        session_id == Get(r.session_id)
        sess1 == establish(sess, session_id, r.gen)
        st == speech_to_text(audio_base64, r.stt)
        user_text == st.result.val
        s1 == save_message_to_node("user", user_text, audio_base64, sess1, token, r.save1)
        a == get_ai_response(user_text, r.rag)
        t == text_to_speech(a.text, r.tts)
        s2 == save_message_to_node("bot", a.text, t.result, sess1, token, r.save2)
        c1 == st.calls
        c2 == Append(c1, s1.call)
        c3 == Append(c2, a.call)
        c4 == c3 \o t.calls
        c5 == Append(c4, s2.call)
        out(rs, cs, se) == [resp |-> rs, calls |-> cs, session |-> se]
    IN  IF r.body # "object" THEN on_voice_chat_error(<<>>, sess)
        ELSE IF ~Truthy(audio_base64)
            THEN out(Json(400, {"error"}, <<"No audio data provided">>), <<>>, sess)
        ELSE IF st.raised THEN on_voice_chat_error(c1, sess1)
        ELSE IF ~Truthy(st.result)
            THEN out(Json(400, {"error"}, <<"Failed to transcribe audio">>), c1, sess1)
        ELSE IF s1.raised THEN on_voice_chat_error(c2, sess1)
        ELSE IF a.raised THEN on_voice_chat_error(c3, sess1)
        ELSE IF t.raised THEN on_voice_chat_error(c4, sess1)
        ELSE IF s2.raised THEN on_voice_chat_error(c5, sess1)
        ELSE out([status |-> 200, ctype |-> "application/json",
                  keys |-> {"text", "audio", "user_text", "session_id"},
                  text |-> a.text, sid |-> sess1], c5, sess1)

Audios == {None, Some(<<>>), Some(<<"b64">>)}

VoiceContexts ==
    {Ctx(NoHeader, Configured), Ctx(Some(<<"Bearer", SP, "tId">>), Configured)}

VoiceFields(kind) ==
    IF kind = "object" THEN [audio : Audios, session_id : SessionIds]
    ELSE [audio : {None}, session_id : {None}]

\* the outcomes of the outbound calls matter only to a request that reaches them
VoiceOutcomes(f) ==
    LET rest == [save1 : SaveOutcomes, rag : RagOutcomes, tts : TtsOutcomes,
                 save2 : SaveOutcomes]
        none == [save1 : {"200"}, rag : {"ok"}, tts : {"ok"}, save2 : {"200"}]
    IN  IF Truthy(f.audio)
        THEN {[stt |-> x] @@ o : x \in SttOutcomes \ {"text"}, o \in none}
             \cup {[stt |-> "text"] @@ o : o \in rest}
        ELSE {[stt |-> "text"] @@ o : o \in none}

VoiceRequests ==
    UNION {UNION {{[route |-> "voice-chat", body |-> k, gen |-> g] @@ c @@ f @@ o :
                     g \in GenIds, c \in VoiceContexts, o \in VoiceOutcomes(f)} :
                  f \in VoiceFields(k)} :
           k \in BodyKinds}

voice_chat_on(requests) ==
    \E r \in requests :
        LET o == voice_chat_run(session, r)
        IN  /\ req' = r
            /\ resp' = o.resp
            /\ calls' = o.calls
            /\ session' = o.session
            /\ user_id' = extract_user_id_from_token(r.header, r.secret)
            /\ UNCHANGED <<mw, cacheVars>>

voice_chat == voice_chat_on(VoiceRequests)

-----------------------------------------------------------------------------
(* src/cache_manager.py: text normalisation and similarity.  A question is a *)
(* sequence of one-character atoms.                                          *)

\* the characters of a question: a lower-case letter, an upper-case letter, a
\* space, a special character
Alphabet == {"a", "B", SP, "!"}

MaxLen == 3

Strings(n) == UNION {[1..k -> Alphabet] : k \in 0..n}

\* str.lower(), one character
LowerChar(c) == IF c = "B" THEN "b" ELSE c

IsSpace(c) == c = SP

\* [a-z0-9]
IsAlnum(c) == c \in {"a", "b"}

\* re.sub(r'\s+', ' ', text): every run of whitespace becomes one space
RECURSIVE Collapse(_)
Collapse(s) ==
    IF s = <<>> THEN <<>>
    ELSE IF IsSpace(Head(s))
        THEN <<SP>> \o Collapse(LStrip(Tail(s)))
    ELSE <<Head(s)>> \o Collapse(Tail(s))

\* re.sub(r'[^a-z0-9\s]', '', text)
RECURSIVE RemoveSpecial(_)
RemoveSpecial(s) ==
    IF s = <<>> THEN <<>>
    ELSE IF IsAlnum(Head(s)) \/ IsSpace(Head(s))
        THEN <<Head(s)>> \o RemoveSpecial(Tail(s))
    ELSE RemoveSpecial(Tail(s))

\* preprocess_text
preprocess_text(text) ==
    IF text = <<>> THEN <<>>
    ELSE LET lowered == [i \in 1..Len(text) |-> LowerChar(text[i])]
         IN  RemoveSpecial(Strip(Collapse(lowered)))

\* one call of preprocess_text: on the text given, then on its own output
preprocess_text_call ==
    /\ last.op = "preprocess_text"
    /\ Len(last.out) < 2
    /\ last' = [last EXCEPT
                   !.out = Append(@, preprocess_text(IF @ = <<>> THEN last.text
                                                     ELSE @[Len(@)]))]
    /\ UNCHANGED <<webVars, mw, FUZZY_LIB, cache_data, cache_file, raceVars>>

\* str.split(): the maximal runs of non-whitespace
RECURSIVE Tokens(_, _)
Tokens(s, cur) ==
    IF s = <<>> THEN (IF cur = <<>> THEN <<>> ELSE <<cur>>)
    ELSE IF IsSpace(Head(s))
        THEN (IF cur = <<>> THEN <<>> ELSE <<cur>>) \o Tokens(Tail(s), <<>>)
    ELSE Tokens(Tail(s), Append(cur, Head(s)))

Ord(c) == CASE c = "!" -> 33 [] c = "B" -> 66 [] c = "a" -> 97 [] c = "b" -> 98 [] OTHER -> 32

\* x < y for Python strings: by code point, a proper prefix first
RECURSIVE StrLess(_, _)
StrLess(x, y) ==
    IF y = <<>> THEN FALSE
    ELSE IF x = <<>> THEN TRUE
    ELSE IF Head(x) # Head(y) THEN Ord(Head(x)) < Ord(Head(y))
    ELSE StrLess(Tail(x), Tail(y))

RECURSIVE Insert(_, _)
Insert(t, sorted) ==
    IF sorted = <<>> THEN <<t>>
    ELSE IF StrLess(t, Head(sorted)) THEN <<t>> \o sorted
    ELSE <<Head(sorted)>> \o Insert(t, Tail(sorted))

\* sorted(tokens)
RECURSIVE Sorted(_)
Sorted(ts) == IF ts = <<>> THEN <<>> ELSE Insert(Head(ts), Sorted(Tail(ts)))

\* " ".join(tokens)
RECURSIVE Join(_)
Join(ts) ==
    IF ts = <<>> THEN <<>>
    ELSE IF Len(ts) = 1 THEN Head(ts)
    ELSE Head(ts) \o <<SP>> \o Join(Tail(ts))

\* the length of a longest common subsequence
RECURSIVE LCS(_, _)
LCS(x, y) ==
    IF x = <<>> \/ y = <<>> THEN 0
    ELSE IF Head(x) = Head(y) THEN 1 + LCS(Tail(x), Tail(y))
    ELSE LET l == LCS(Tail(x), y)
             r == LCS(x, Tail(y))
         IN  IF l >= r THEN l ELSE r

\* a score or a confidence is the fraction num/den, den > 0
Frac(n, d) == [num |-> n, den |-> d]
FracLess(p, q) == p.num * q.den < q.num * p.den
FracEq(p, q) == p.num * q.den = q.num * p.den

\* int(round(n / d)), Python's round: half to even
RoundHalfEven(n, d) ==
    LET q == n \div d
        r == n % d
    IN  IF 2 * r > d THEN q + 1
        ELSE IF 2 * r = d THEN q + (q % 2)
        ELSE q

\* fuzz.token_sort_ratio: the tokens sorted and joined, then the normalised
\* indel similarity 100 * 2 * LCS / (len1 + len2); two empty strings score 100.
\* rapidfuzz returns the fraction, fuzzywuzzy rounds it to an int.
token_sort_ratio(lib, s1, s2) ==
    LET a == Join(Sorted(Tokens(s1, <<>>)))
        b == Join(Sorted(Tokens(s2, <<>>)))
        total == Len(a) + Len(b)
    IN  IF total = 0 THEN Frac(100, 1)
        ELSE IF lib = "fuzzywuzzy"
            THEN Frac(IF a = <<>> \/ b = <<>> THEN 0
                      ELSE RoundHalfEven(200 * LCS(a, b), total), 1)
        ELSE Frac(200 * LCS(a, b), total)

\* process.extractOne(query, choices, scorer): [choice, score, index] of the
\* first choice with the highest score
RECURSIVE extractOne(_, _, _, _, _)
extractOne(lib, query, choices, i, best) ==
    IF i > Len(choices) THEN best
    ELSE LET sc == token_sort_ratio(lib, query, choices[i])
         IN  IF best.index = 0 \/ FracLess(best.score, sc)
             THEN extractOne(lib, query, choices, i + 1,
                             [choice |-> choices[i], score |-> sc, index |-> i])
             ELSE extractOne(lib, query, choices, i + 1, best)

\* the last position of x
IndexOfLast(xs, x) == CHOOSE i \in 1..Len(xs) : xs[i] = x /\ \A j \in (i + 1)..Len(xs) : xs[j] # x

\* list.index(x): the first position of x
IndexOf(xs, x) == CHOOSE i \in 1..Len(xs) : xs[i] = x /\ \A j \in 1..(i - 1) : xs[j] # x

-----------------------------------------------------------------------------
(* src/cache_manager.py: find_match *)

DefaultThreshold == 85

General == <<"general">>

Unmatched(confidence) ==
    [matched |-> FALSE, answer |-> None, confidence |-> confidence, question |-> None,
     category |-> None]

Matched(item, confidence) ==
    [matched |-> TRUE, answer |-> Some(item.answer), confidence |-> confidence,
     question |-> Some(item.question),
     category |-> IF item.category.has THEN item.category ELSE Some(General)]

\* an exact match that compares the questions as they were typed
exact_match_raw(cache, user_question) ==
    LET hits == {i \in 1..Len(cache) : cache[i].question = user_question}
    IN  IF hits = {} THEN Unmatched(Frac(0, 1))
        ELSE Matched(cache[CHOOSE i \in hits : \A j \in hits : i <= j], Frac(1, 1))

\* _exact_match: the first entry whose normalised question is the normalised input
exact_match(cache, user_question) ==
    LET processed_question == preprocess_text(user_question)
        hits == {i \in 1..Len(cache) :
                    preprocess_text(cache[i].question) = processed_question}
    IN  IF hits = {} THEN Unmatched(Frac(0, 1))
        ELSE Matched(cache[CHOOSE i \in hits : \A j \in hits : i <= j], Frac(1, 1))

\* a find_match that wants the score strictly above the threshold
find_match_strict(lib, cache, user_question, threshold) ==
    LET processed_question == preprocess_text(user_question)
        choices == [i \in 1..Len(cache) |-> preprocess_text(cache[i].question)]
        best_match == extractOne(lib, processed_question, choices, 1,
                                 [choice |-> <<>>, score |-> Frac(0, 1), index |-> 0])
        score == best_match.score
        confidence == Frac(score.num, score.den * 100)
    IN  IF user_question = <<>> \/ cache = <<>> THEN Unmatched(Frac(0, 1))
        ELSE IF lib = "none" THEN exact_match(cache, user_question)
        ELSE IF score.num > threshold * score.den
            THEN Matched(cache[IndexOf(choices, best_match.choice)], confidence)
        ELSE Unmatched(confidence)

\* find_match(user_question, threshold)
find_match_result(lib, cache, user_question, threshold) ==
    LET processed_question == preprocess_text(user_question)
        choices == [i \in 1..Len(cache) |-> preprocess_text(cache[i].question)]
        best_match == extractOne(lib, processed_question, choices, 1,
                                 [choice |-> <<>>, score |-> Frac(0, 1), index |-> 0])
        score == best_match.score
        confidence == Frac(score.num, score.den * 100)
    IN  IF user_question = <<>> \/ cache = <<>> THEN Unmatched(Frac(0, 1))
        ELSE IF lib = "none" THEN exact_match(cache, user_question)
        ELSE IF score.num >= threshold * score.den
            THEN Matched(cache[IndexOf(choices, best_match.choice)], confidence)
        ELSE Unmatched(confidence)

\* one call of find_match on the cache in memory
find_match ==
    /\ last.op = "find_match"
    /\ ~last.done
    /\ last' = [last EXCEPT !.done = TRUE,
                            !.result = find_match_result(FUZZY_LIB, cache_data,
                                                         last.user_question, last.threshold)]
    /\ UNCHANGED <<webVars, mw, FUZZY_LIB, cache_data, cache_file, raceVars>>

-----------------------------------------------------------------------------
(* src/cache_manager.py: the backing document, load_cache, add_to_cache *)

\* the characters JSON escapes, and one outside ASCII
DQ == "QUOTE"
BS == "BACKSLASH"
EAcute == "E-ACUTE"

\* json.dump of a str with ensure_ascii=False: quoted, with " and \ escaped and
\* every other character written as it is
RECURSIVE Escape(_)
Escape(s) ==
    IF s = <<>> THEN <<>>
    ELSE IF Head(s) \in {DQ, BS} THEN <<BS, Head(s)>> \o Escape(Tail(s))
    ELSE <<Head(s)>> \o Escape(Tail(s))

json_dump_str(s) == <<DQ>> \o Escape(s) \o <<DQ>>

RECURSIVE Unescape(_)
Unescape(s) ==
    IF s = <<>> THEN <<>>
    ELSE IF Head(s) = BS THEN <<s[2]>> \o Unescape(SubSeq(s, 3, Len(s)))
    ELSE <<Head(s)>> \o Unescape(Tail(s))

\* json.load of a string literal
json_load_str(t) == Unescape(SubSeq(t, 2, Len(t) - 1))

Opt(f(_), o) == IF o.has THEN Some(f(o.val)) ELSE None

\* json.dump(self.cache_data, f, indent=2, ensure_ascii=False): the document's
\* records, each string as the literal written
json_dump(cache) ==
    [i \in 1..Len(cache) |->
        [id |-> cache[i].id,
         question |-> json_dump_str(cache[i].question),
         answer |-> json_dump_str(cache[i].answer),
         keywords |-> [k \in 1..Len(cache[i].keywords) |->
                          json_dump_str(cache[i].keywords[k])],
         category |-> Opt(json_dump_str, cache[i].category)]]

\* json.load(f)
json_load(text) ==
    [i \in 1..Len(text) |->
        [id |-> text[i].id,
         question |-> json_load_str(text[i].question),
         answer |-> json_load_str(text[i].answer),
         keywords |-> [k \in 1..Len(text[i].keywords) |->
                          json_load_str(text[i].keywords[k])],
         category |-> Opt(json_load_str, text[i].category)]]

\* the backing file: absent, or holding text that is or is not a JSON document
NoFile == [exists |-> FALSE, valid |-> FALSE, text |-> <<>>]
Document(text) == [exists |-> TRUE, valid |-> TRUE, text |-> text]
Corrupt == [exists |-> TRUE, valid |-> FALSE, text |-> <<>>]

\* load_cache: the entries of the document; none when the file is absent or
\* json.load raises
load_cache_result(file) ==
    IF file.exists /\ file.valid THEN json_load(file.text) ELSE <<>>

Max(S) == CHOOSE x \in S : \A y \in S : y <= x

\* an id taken from the number of entries
next_id_by_count(cache) == Len(cache) + 1

\* max([item['id'] for item in self.cache_data], default=0) + 1
next_id(cache) ==
    IF cache = <<>> THEN 1 ELSE Max({cache[i].id : i \in 1..Len(cache)}) + 1

\* what the file system does with the rewrite: it succeeds, open() raises and
\* the file is as it was, or the write stops after open() truncated the file
IoOutcomes == {"ok", "open_fails", "dump_fails"}

\* a rewrite that writes the new entry alone
written_new_entry_only(cache) == json_dump(<<cache[Len(cache)]>>)

\* the document add_to_cache writes: the whole collection
written(cache) == json_dump(cache)

\* add_to_cache: [ok, cache, file]
add_to_cache_result(cache, file, question, answer, keywords, category, io) ==
    LET new_entry ==
            [id |-> next_id(cache), question |-> question, answer |-> answer,
             keywords |-> IF keywords.has THEN keywords.val ELSE <<>>,
             category |-> Some(category)]
        appended == Append(cache, new_entry)
    IN  [ok |-> io = "ok",
         cache |-> appended,
         file |-> CASE io = "ok" -> Document(written(appended))
                    [] io = "open_fails" -> file
                    [] OTHER -> Corrupt]

MaxCache == 3

CacheQuestions == {<<"f", "l", "u">>, <<DQ, EAcute, BS>>}
CacheKeywords == {None, Some(<<<<"k", DQ>>>>)}
CacheAnswer == <<"r", "e", "s", "t">>

add_to_cache ==
    /\ Len(cache_data) < MaxCache
    /\ \E q \in CacheQuestions, kw \in CacheKeywords, io \in IoOutcomes :
           LET o == add_to_cache_result(cache_data, cache_file, q, CacheAnswer, kw,
                                        General, io)
           IN  /\ cache_data' = o.cache
               /\ cache_file' = o.file
               /\ last' = [op |-> "add_to_cache", ok |-> o.ok, io |-> io,
                           before |-> cache_data]
    /\ UNCHANGED <<webVars, mw, FUZZY_LIB, raceVars>>

load_cache ==
    /\ cache_data' = load_cache_result(cache_file)
    /\ last' = [op |-> "load_cache", ok |-> TRUE, io |-> "ok", before |-> cache_data]
    /\ UNCHANGED <<webVars, mw, FUZZY_LIB, cache_file, raceVars>>

-----------------------------------------------------------------------------
(* src/cache_manager.py: add_to_cache called from several request threads.   *)
(* A call is the steps of its body, one statement a step, and another        *)
(* thread may run between any two of them; nothing in the class holds a lock. *)

Threads == {"t1", "t2"}

InitThreads ==
    /\ threads = [t \in Threads |->
                     [pc |-> "idle", new_id |-> 0, question |-> <<>>, io |-> "ok",
                      buf |-> <<>>, ok |-> TRUE]]
    /\ hist = [overlapped |-> FALSE, failed |-> FALSE]

Running(t) == threads[t].pc # "idle"

\* the buffered text written at offset 0 when the with block closes the file:
\* it replaces what is there, unless another handle has since written a longer
\* document, whose tail then stays behind it
flushed(file, buf) ==
    IF file.valid /\ Len(file.text) > Len(buf) THEN Corrupt ELSE Document(buf)

\* a thread enters add_to_cache and evaluates new_id
add_max(t) ==
    /\ ~Running(t)
    /\ Len(cache_data) + Cardinality({u \in Threads : threads[u].pc = "max"}) < MaxCache
    /\ \E q \in CacheQuestions, io \in IoOutcomes :
           threads' = [threads EXCEPT
                          ![t] = [pc |-> "max", new_id |-> next_id(cache_data),
                                  question |-> q, io |-> io, buf |-> <<>>, ok |-> TRUE]]
    /\ hist' = [hist EXCEPT
                   !.overlapped = @ \/ \E u \in Threads \ {t} : Running(u)]
    /\ UNCHANGED <<webVars, mw, FUZZY_LIB, cache_data, cache_file, last>>

\* self.cache_data.append(new_entry)
add_append(t) ==
    /\ threads[t].pc = "max"
    /\ cache_data' = Append(cache_data,
                            [id |-> threads[t].new_id, question |-> threads[t].question,
                             answer |-> CacheAnswer, keywords |-> <<>>,
                             category |-> Some(General)])
    /\ threads' = [threads EXCEPT ![t].pc = "appended"]
    /\ UNCHANGED <<webVars, mw, FUZZY_LIB, cache_file, last, hist>>

\* open(self.cache_file_path, 'w'): it truncates the file (it exists and is
\* empty, which is not JSON), or raises and the except clause returns False
add_open(t) ==
    /\ threads[t].pc = "appended"
    /\ IF threads[t].io = "open_fails"
       THEN /\ threads' = [threads EXCEPT ![t].pc = "idle", ![t].ok = FALSE]
            /\ hist' = [hist EXCEPT !.failed = TRUE]
            /\ UNCHANGED cache_file
       ELSE /\ threads' = [threads EXCEPT ![t].pc = "opened"]
            /\ cache_file' = [exists |-> TRUE, valid |-> FALSE, text |-> <<>>]
            /\ UNCHANGED hist
    /\ UNCHANGED <<webVars, mw, FUZZY_LIB, cache_data, last>>

\* json.dump(self.cache_data, f): the collection as it is now goes to the
\* file object's buffer, or the dump raises and the except clause returns False
add_dump(t) ==
    /\ threads[t].pc = "opened"
    /\ IF threads[t].io = "dump_fails"
       THEN /\ threads' = [threads EXCEPT ![t].pc = "idle", ![t].ok = FALSE]
            /\ hist' = [hist EXCEPT !.failed = TRUE]
       ELSE /\ threads' = [threads EXCEPT ![t].pc = "dumped",
                                          ![t].buf = written(cache_data)]
            /\ UNCHANGED hist
    /\ UNCHANGED <<webVars, mw, FUZZY_LIB, cache_data, cache_file, last>>

\* the with block closes the file, the buffer is written, return True
add_close(t) ==
    /\ threads[t].pc = "dumped"
    /\ cache_file' = flushed(cache_file, threads[t].buf)
    /\ threads' = [threads EXCEPT ![t].pc = "idle", ![t].ok = TRUE]
    /\ UNCHANGED <<webVars, mw, FUZZY_LIB, cache_data, last, hist>>

-----------------------------------------------------------------------------
IdleResp == [status |-> 0, ctype |-> "", keys |-> {}, text |-> <<>>, sid |-> None]

InitWeb ==
    /\ session = None
    /\ req = [route |-> "none"]
    /\ resp = IdleResp
    /\ calls = <<>>
    /\ user_id = <<>>
    /\ mw = [header |-> None, invoked |-> FALSE, user_id |-> None, resp |-> IdleResp]

\* the process after start-up, its cache file absent
Init ==
    /\ InitWeb
    /\ InitThreads
    /\ FUZZY_LIB = "rapidfuzz"
    /\ cache_data = load_cache_result(NoFile)
    /\ cache_file = NoFile
    /\ last = [op |-> "none"]

Stored(id, question, category) ==
    [id |-> id, question |-> question, answer |-> CacheAnswer, keywords |-> <<>>,
     category |-> category]

\* the documents a process may find at start-up: none, one that is not JSON, and
\* documents whose ids are unique (written by add_to_cache or by hand)
InitialFiles ==
    {NoFile, Corrupt, Document(<<>>),
     Document(json_dump(<<Stored(1, <<"f", "l", "u">>, Some(General))>>)),
     Document(json_dump(<<Stored(3, <<"f", "l", "u">>, None),
                          Stored(1, <<DQ>>, Some(General))>>))}

\* CacheManager.__init__: load_cache on the file found
InitCache ==
    /\ InitWeb
    /\ InitThreads
    /\ FUZZY_LIB = "rapidfuzz"
    /\ cache_file \in InitialFiles
    /\ cache_data = load_cache_result(cache_file)
    /\ last = [op |-> "none"]

NextCache == add_to_cache \/ load_cache

\* the answer cache under sequential add_to_cache and load_cache calls
SpecCache == InitCache /\ [][NextCache]_vars

MaxEntries == 2

Libs == {"rapidfuzz", "fuzzywuzzy", "none"}
CachedQuestions == {<<"a">>, <<"B", SP, "a">>, <<"!">>, <<"a", "!">>}
Digits == <<"1", "2", "3", "4", "5">>
Thresholds == {50, DefaultThreshold, 100}

\* a loaded cache: entry i has id i and an answer of its own; odd entries carry
\* a category, even ones none
CacheOf(qs) ==
    [i \in 1..Len(qs) |->
        [id |-> i, question |-> qs[i], answer |-> <<"answer", Digits[i]>>,
         keywords |-> <<>>,
         category |-> IF i % 2 = 1 THEN Some(<<"cardiology">>) ELSE None]]

Caches == {CacheOf(qs) : qs \in UNION {[1..n -> CachedQuestions] : n \in 0..MaxEntries}}

\* a loaded cache and one pending find_match call
InitMatch ==
    /\ InitWeb
    /\ InitThreads
    /\ FUZZY_LIB \in Libs
    /\ cache_data \in Caches
    /\ cache_file = Document(json_dump(cache_data))
    /\ \E q \in Strings(MaxLen), t \in Thresholds :
           last = [op |-> "find_match", user_question |-> q, threshold |-> t,
                   done |-> FALSE, result |-> Unmatched(Frac(0, 1))]

NextMatch == find_match

\* find_match as a function of the library, the cache, the question and the threshold
SpecMatch == InitMatch /\ [][NextMatch]_vars

NextGet == chat

\* requests for the two token checks: every header, sent to a wrapped route and,
\* with a query string, to /get while the backend saves and the pipeline answers
AuthContexts == {Ctx(h, Configured) : h \in Headers} \cup {Ctx(NoHeader, None)}
AuthChatRequests ==
    {r \in ChatRequestsOf(AuthContexts, [method : {"GET"}, is_json : {FALSE}, json : {"object"}]) :
        r.session_id = None /\ r.save1 = "200" /\ r.rag = "ok" /\ r.save2 = "200"}

NextAuth == decorated_function \/ chat_on(AuthChatRequests)

NextWhatsapp == whatsapp_webhook

NextVoice == voice_chat

\* the text-chat route alone
SpecGet == Init /\ [][NextGet]_vars

\* the middleware and the inline decode of /get, side by side
SpecAuth == Init /\ [][NextAuth]_vars

\* the WhatsApp webhook alone
SpecWhatsapp == Init /\ [][NextWhatsapp]_vars

\* the voice-chat route alone
SpecVoice == Init /\ [][NextVoice]_vars

\* a voice handler and one pending text_to_speech call
InitTts ==
    /\ InitWeb
    /\ InitThreads
    /\ FUZZY_LIB = "rapidfuzz"
    /\ cache_data = <<>>
    /\ cache_file = NoFile
    /\ \E t \in {<<>>, <<"h", "i">>}, l \in {"en", "EN", "hi"}, u \in BOOLEAN,
          g \in [1..Len(Voices) -> GroqOutcomes], o \in TtsOutcomes :
           last = [op |-> "text_to_speech", text |-> t, language |-> l, use_groq |-> u,
                   groq |-> g, gtts |-> o, done |-> FALSE, result |-> None]

NextTts == text_to_speech_call

\* text_to_speech as a function of its arguments and of what the providers do
SpecTts == InitTts /\ [][NextTts]_vars

\* the requests of one browser: with or without a session_id of the caller's,
\* while the backend saves and the pipeline answers
SessionFields ==
    [gen : {token_hex(8, "a"), token_hex(8, "7")},
     session_id : {None, Some(<<>>), Some(<<"s", "1">>), Some(<<"s", "2">>)}]
SessionChatRequests ==
    {[route |-> "get", method |-> "GET", is_json |-> FALSE, json |-> "object",
      msg |-> m, save1 |-> "200", rag |-> "ok", save2 |-> "200"]
     @@ f @@ Ctx(NoHeader, Configured) : f \in SessionFields, m \in Msgs}
SessionVoiceRequests ==
    {[route |-> "voice-chat", body |-> "object", audio |-> a,
      stt |-> x, save1 |-> "200", rag |-> "ok", tts |-> "ok", save2 |-> "200"]
     @@ f @@ Ctx(NoHeader, Configured) :
        f \in SessionFields, a \in {None, Some(<<"b64">>)}, x \in {"text", "empty"}}

NextSession == chat_on(SessionChatRequests) \/ voice_chat_on(SessionVoiceRequests)

\* /get and /voice-chat sharing one browser's cookie
SpecSession == Init /\ [][NextSession]_vars

\* a cache manager and one text to normalise
InitNormalize ==
    /\ InitWeb
    /\ InitThreads
    /\ FUZZY_LIB = "rapidfuzz"
    /\ cache_data = <<>>
    /\ cache_file = NoFile
    /\ \E t \in Strings(MaxLen) : last = [op |-> "preprocess_text", text |-> t, out |-> <<>>]

NextNormalize == preprocess_text_call

\* preprocess_text as a function of its input, applied once and once more
SpecNormalize == InitNormalize /\ [][NextNormalize]_vars

NextRace ==
    \E t \in Threads :
        add_max(t) \/ add_append(t) \/ add_open(t) \/ add_dump(t) \/ add_close(t)

\* add_to_cache called by two request threads, on the cache a process loaded
SpecRace == InitCache /\ [][NextRace]_vars

NextSend == send_whatsapp_message

\* the proactive send route alone
SpecSend == Init /\ [][NextSend]_vars

NextVoiceNotes == voice_chat \/ whatsapp_webhook

\* the two routes that take recorded speech: /voice-chat and /whatsapp
SpecVoiceNotes == Init /\ [][NextVoiceNotes]_vars

-----------------------------------------------------------------------------
(* Properties of POST /whatsapp *)

RagFailed == \E i \in 1..Len(calls) : calls[i].op = "rag" /\ calls[i].outcome = "error"

VoiceFailed ==
    ~req.formError /\ IsVoice(req) /\ (req.download # "200" \/ req.stt \in {"empty", "500", "timeout"})

(* C1: every response of POST /whatsapp has status 200 and content type     *)
(* text/xml, whatever the download, the transcription, the answer           *)
(* computation and the two saves did; no exception leaves the handler.  A   *)
(* failed download or transcription is answered with the voice apology, an  *)
(* exception that reaches the outermost handler with the generic apology,   *)
(* and a failed answer computation with the answer apology.                 *)
C1_WebhookAlways200 ==
    req.route = "whatsapp" =>
        /\ resp.status = 200
        /\ resp.ctype = "text/xml"
        /\ resp # internal_error
        /\ (req.formError => resp.keys = {"Message"} /\ resp.text = WebhookApology)
        /\ (VoiceFailed => resp.keys = {"Message"} /\ resp.text = VoiceApology)
        /\ (RagFailed =>
                /\ resp.keys = {"Message"}
                /\ SubSeq(resp.text, Len(resp.text) - Len(AiApology) + 1, Len(resp.text))
                       = AiApology)

\* a voice note whose download raised, answered 200 with the apology
C1_Witness ==
    /\ req.route = "whatsapp"
    /\ IsVoice(req)
    /\ req.download = "timeout"
    /\ Len(calls) = 1 /\ calls[1].raised
    /\ resp.status = 200
    /\ resp.text = VoiceApology

-----------------------------------------------------------------------------
(* Properties of the token checks *)

\* the header's second space-delimited segment is a token that validates under
\* HS256 with the shared secret, is not expired, and carries a non-empty userId
\* or _id
ValidBearer(h) ==
    /\ h.has
    /\ Len(Split(h.val)) >= 2
    /\ LET seg == Split(h.val)[2]
       IN  /\ Len(seg) = 1
           /\ seg[1] \in TokenNames
           /\ LET j == JwtOf(seg[1])
              IN  /\ j.wellformed /\ j.alg = "HS256" /\ j.key = SharedKey /\ ~j.expired
                  /\ (Truthy(j.claims.userId) \/ Truthy(j.claims.uid))

MwServed == mw.resp.status # 0

(* C2: the handler wrapped by authenticate_user runs if and only if the     *)
(* Authorization header's second space-delimited segment is a valid,        *)
(* unexpired HS256 token with a non-empty userId or _id claim; in every     *)
(* other case it does not run and the response is 401 with success=false.   *)
C2_HandlerIffValidToken ==
    MwServed =>
        /\ mw.invoked <=> ValidBearer(mw.header)
        /\ (mw.invoked => mw.resp = WrappedOk /\ Truthy(mw.user_id))
        /\ (~mw.invoked => mw.resp.status = 401 /\ "success:false" \in mw.resp.keys)

\* a token whose userId is empty and whose _id is not: the handler runs as _id
C2_Witness ==
    /\ MwServed
    /\ mw.header = Some(<<"Bearer", SP, "tBoth">>)
    /\ mw.invoked
    /\ mw.user_id = Some(U2)

\* the header carries a token signed with a secret the service does not hold
SignedWrong(h) ==
    h.has /\ \E i \in 1..Len(h.val) :
                 h.val[i] \in TokenNames /\ JwtOf(h.val[i]).wellformed
                 /\ JwtOf(h.val[i]).key = WrongKey

(* C3: a bearer token signed with a wrong secret is rejected by the         *)
(* middleware (401, handler not run), while /get resolves the identity to   *)
(* "anonymous" and serves the request: never 401, and 200 with the three    *)
(* outbound calls when a msg is given.                                      *)
C3_AuthPathsDiffer ==
    /\ (MwServed /\ SignedWrong(mw.header) =>
            ~mw.invoked /\ mw.resp.status = 401 /\ "success:false" \in mw.resp.keys)
    /\ (req.route = "get" /\ SignedWrong(req.header) =>
            /\ user_id = Anonymous
            /\ resp.status # 401
            /\ (Truthy(req.msg) /\ req.json = "object" => resp.status = 200 /\ Len(calls) = 3))

\* the same wrongly signed header went to both: one 401, one 200 as anonymous
C3_Witness ==
    /\ MwServed /\ req.route = "get"
    /\ mw.header = req.header
    /\ SignedWrong(req.header)
    /\ mw.resp.status = 401 /\ ~mw.invoked
    /\ resp.status = 200 /\ user_id = Anonymous

-----------------------------------------------------------------------------
(* Properties of /get and /voice-chat *)

(* C4: every /get request without a msg value (query string, form body, or  *)
(* a JSON body of any shape) is answered 400 with an error key, and issues  *)
(* no save and no answer computation.                                       *)
C4_NoMsgIs400 ==
    req.route = "get" /\ ~Truthy(req.msg) =>
        resp.status = 400 /\ "error" \in resp.keys /\ calls = <<>>

(* C5: every /voice-chat request without an audio field, a request with no  *)
(* JSON body included, is answered 400 with an error key, and so is every   *)
(* request whose audio fails transcription.                                 *)
C5_NoAudioIs400 ==
    req.route = "voice-chat" =>
        /\ (~Truthy(req.audio) => resp.status = 400 /\ "error" \in resp.keys)
        /\ (Truthy(req.audio) /\ req.stt # "text" => resp.status = 400)

SaveCalls == {i \in 1..Len(calls) : calls[i].op = "save"}

(* C10: every /get request with a msg is answered 200 with {answer,         *)
(* session_id} whatever the two saves did; each save returned to the        *)
(* handler without raising, with no result unless the backend answered      *)
(* 200/201; and the answer is the pipeline's answer for the msg (the        *)
(* apology when the pipeline failed) under every save outcome.              *)
C10_GetAvailability ==
    req.route = "get" /\ Truthy(req.msg) /\ req.json = "object" =>
        /\ resp.status = 200
        /\ resp.ctype = "application/json"
        /\ resp.keys = {"answer", "session_id"}
        /\ resp.text = (IF req.rag = "ok" THEN RagAnswer(req.msg.val) ELSE AiApology)
        /\ Cardinality(SaveCalls) = 2
        /\ \A i \in SaveCalls :
               ~calls[i].raised /\ (calls[i].outcome # "200" => calls[i].result = None)

\* both saves failed, one by a timeout and one by a 500, and the answer came back
C10_Witness ==
    /\ req.route = "get"
    /\ req.save1 = "timeout" /\ req.save2 = "500" /\ req.rag = "ok"
    /\ resp.status = 200
    /\ resp.text = RagAnswer(req.msg.val)

-----------------------------------------------------------------------------
(* Properties of the answer cache *)

Ids(cache) == {cache[i].id : i \in 1..Len(cache)}

UniqueIds(cache) ==
    \A i, j \in 1..Len(cache) : i # j => cache[i].id # cache[j].id

Added == last.op = "add_to_cache"

(* C6: add_to_cache gives the first entry of an empty cache id 1 and every  *)
(* other entry max(existing ids) + 1; under sequential calls, from a cache  *)
(* whose ids are unique, the ids stay pairwise distinct and each new id is  *)
(* greater than every id that was there before the call.                    *)
C6_IdsUniqueIncreasing ==
    /\ UniqueIds(cache_data)
    /\ (Added =>
            LET new == cache_data[Len(cache_data)]
            IN  /\ cache_data = Append(last.before, new)
                /\ (last.before = <<>> => new.id = 1)
                /\ (last.before # <<>> =>
                        /\ new.id - 1 \in Ids(last.before)
                        /\ \A x \in Ids(last.before) : x < new.id))

\* an entry added to the loaded cache with ids 3, 1 got id 4
C6_Witness ==
    /\ Added
    /\ Len(last.before) = 2
    /\ last.before[1].id = 3 /\ last.before[2].id = 1
    /\ cache_data[3].id = 4

(* C7: after an add_to_cache call that returned success, loading the        *)
(* backing document again gives the collection held in memory, entry by     *)
(* entry and in the same order.                                             *)
C7_ReloadReproduces ==
    Added /\ last.ok => load_cache_result(cache_file) = cache_data

\* a second entry, with characters JSON escapes, was added and written
C7_Witness ==
    /\ Added /\ last.ok
    /\ Len(cache_data) >= 2
    /\ cache_data[Len(cache_data)].question = <<DQ, EAcute, BS>>
    /\ cache_file.text # cache_data
    /\ load_cache_result(cache_file) = cache_data

Found == last.op = "find_match" /\ last.done

\* the score of each cached question against the question asked
ScoreOf(i) ==
    token_sort_ratio(FUZZY_LIB, preprocess_text(last.user_question),
                     preprocess_text(cache_data[i].question))

\* the maximum of those scores
BestScore ==
    LET S == {ScoreOf(i) : i \in 1..Len(cache_data)}
    IN  CHOOSE b \in S : \A t \in S : ~FracLess(b, t)

CategoryOf(item) == IF item.category.has THEN item.category ELSE Some(General)

(* C8: with a fuzzy library, a non-empty question and a non-empty cache,    *)
(* find_match reports matched exactly when the highest similarity score of  *)
(* the cached questions is at least the threshold; the confidence is that   *)
(* score / 100 and lies in 0..1; a match carries the answer, question and   *)
(* category of an entry with that score, a miss carries no answer.          *)
C8_FuzzyMatch ==
    Found /\ FUZZY_LIB # "none" /\ last.user_question # <<>> /\ cache_data # <<>> =>
        LET r == last.result
            best == BestScore
        IN  /\ r.matched <=> ~FracLess(best, Frac(last.threshold, 1))
            /\ FracEq(r.confidence, Frac(best.num, best.den * 100))
            /\ 0 <= r.confidence.num /\ r.confidence.num <= r.confidence.den
            /\ (r.matched =>
                    \E i \in 1..Len(cache_data) :
                        /\ FracEq(ScoreOf(i), best)
                        /\ r.answer = Some(cache_data[i].answer)
                        /\ r.question = Some(cache_data[i].question)
                        /\ r.category = CategoryOf(cache_data[i]))
            /\ (~r.matched => r.answer = None /\ r.question = None)

\* a match below a perfect score: the second of two entries, at its threshold
C8_Witness ==
    /\ Found /\ FUZZY_LIB = "rapidfuzz"
    /\ last.result.matched
    /\ FracLess(last.result.confidence, Frac(1, 1))
    /\ Len(cache_data) = 2
    /\ last.result.answer = Some(cache_data[2].answer)
    /\ FracEq(BestScore, Frac(last.threshold, 1))

SameNormalForm(i) ==
    preprocess_text(cache_data[i].question) = preprocess_text(last.user_question)

(* C9 as stated: without a fuzzy library, whenever the question asked and a *)
(* cached question have the same normalised form, the empty string          *)
(* included, find_match reports matched with confidence 1.0.                *)
C9_ExactMatchAnyQuery ==
    Found /\ FUZZY_LIB = "none" =>
        \A i \in 1..Len(cache_data) :
            SameNormalForm(i) =>
                last.result.matched /\ last.result.confidence = Frac(1, 1)

(* C9, amended: without a fuzzy library, whenever a non-empty question and  *)
(* a cached question have the same normalised form, the empty string        *)
(* included, find_match reports matched with confidence 1.0 and the first   *)
(* such entry; the empty question is unmatched with confidence 0.           *)
C9_ExactMatchNonEmptyQuery ==
    Found /\ FUZZY_LIB = "none" =>
        /\ \A i \in 1..Len(cache_data) :
               last.user_question # <<>> /\ SameNormalForm(i) =>
                   /\ last.result.matched
                   /\ last.result.confidence = Frac(1, 1)
                   /\ \E j \in 1..i :
                          SameNormalForm(j) /\ last.result.answer = Some(cache_data[j].answer)
        /\ (last.user_question = <<>> =>
                ~last.result.matched /\ last.result.confidence = Frac(0, 1))

\* a question of special characters only matched a cached one of the same kind
C9_Witness ==
    /\ Found /\ FUZZY_LIB = "none"
    /\ last.user_question # <<>>
    /\ preprocess_text(last.user_question) = <<>>
    /\ last.result.matched
    /\ last.result.confidence = Frac(1, 1)

-----------------------------------------------------------------------------
(* Properties of POST /whatsapp/send *)

SendCalls == {i \in 1..Len(calls) : calls[i].op = "send"}

(* C11: a /whatsapp/send request made while the messaging client was never  *)
(* configured is answered 500; with a client, every request whose body      *)
(* lacks to or message (a body that is absent or is no JSON object lacks    *)
(* both) is answered 400; a send that raises is answered 500 with the error *)
(* text; every other request is answered 200 with {success, message_sid,    *)
(* status}, its destination carrying the whatsapp: prefix, added exactly    *)
(* when it was missing.  (Where the claim's 400 and 500 cases overlap, the  *)
(* 500 of the missing client is taken to win, as in the code.)              *)
C11_SendContract ==
    req.route = "whatsapp/send" =>
        LET lacks == ~Truthy(req.to) \/ ~Truthy(req.message)
        IN  /\ (lacks /\ req.twilio_client => resp.status = 400 /\ calls = <<>>)
            /\ (~req.twilio_client => resp.status = 500)
            /\ (~lacks /\ req.twilio_client /\ req.send \in {"rest_error", "timeout"} =>
                    resp.status = 500 /\ resp.text = ExceptionText)
            /\ (~lacks /\ req.twilio_client /\ req.send \in {"queued", "accepted"} =>
                    /\ resp.status = 200
                    /\ resp.keys = {"success", "message_sid", "status"}
                    /\ Cardinality(SendCalls) = 1
                    /\ \A i \in SendCalls :
                           calls[i].to = (IF IsPrefix(WhatsappPrefix, req.to.val)
                                          THEN req.to.val
                                          ELSE WhatsappPrefix \o req.to.val))

-----------------------------------------------------------------------------
(* Properties of text_to_speech *)

Spoken == last.op = "text_to_speech" /\ last.done

PremiumCalls == {i \in 1..Len(calls) : calls[i].op = "groq_tts"}
UniversalCalls == {i \in 1..Len(calls) : calls[i].op = "tts"}

\* the premium provider answered preset i with audio
Answered(i) == last.groq[i] = "200"

\* the first preset the premium provider answered with a 200, 0 if none
FirstOk ==
    LET S == {i \in 1..Len(Voices) : last.groq[i] \in {"200", "200-empty"}}
    IN  IF S = {} THEN 0 ELSE CHOOSE i \in S : \A j \in S : i <= j

\* the premium path, had it been taken, gives audio
PremiumGives == FirstOk # 0 /\ Answered(FirstOk)

(* C12: text_to_speech attempts the premium path only when use_groq is set  *)
(* and language is 'en', and before the universal path; with text, it       *)
(* attempts the universal path exactly when the premium path was not        *)
(* attempted or gave no audio; the premium path asks for the presets Fritz, *)
(* Bryan, Aria in that order, stops at the first 200 and returns its audio; *)
(* with empty text no provider is contacted and the result is None.         *)
C12_TtsPathSelection ==
    Spoken =>
        LET premium == last.use_groq /\ last.language = "en"
            n == Cardinality(PremiumCalls)
        IN  /\ (PremiumCalls # {} => premium)
            /\ (last.text # <<>> /\ premium => PremiumCalls # {})
            /\ \A i \in PremiumCalls, j \in UniversalCalls : i < j
            /\ PremiumCalls = 1..n
            /\ n <= Len(Voices)
            /\ \A i \in PremiumCalls :
                   /\ calls[i].voice = Voices[i]
                   /\ calls[i].text = last.text
                   /\ (calls[i].result.has => i = n)
                   /\ (i < n => last.groq[i] \in {"500", "timeout"})
            /\ (n > 0 /\ n < Len(Voices) => calls[n].result.has)
            /\ (last.text # <<>> =>
                    /\ (UniversalCalls # {} <=> (~premium \/ ~PremiumGives))
                    /\ Cardinality(UniversalCalls) <= 1
                    /\ (premium /\ PremiumGives =>
                            last.result = Some(<<"groq-b64", Voices[FirstOk]>>))
                    /\ (UniversalCalls # {} =>
                            last.result = (IF last.gtts = "ok" THEN Some(<<"tts-b64">>)
                                           ELSE None)))
            /\ (last.text = <<>> => calls = <<>> /\ last.result = None)

\* Fritz failed, Bryan answered: two premium requests, Bryan's audio returned,
\* Aria and the universal path never asked
C12_Witness ==
    /\ Spoken
    /\ last.groq[1] = "timeout" /\ last.groq[2] = "200" /\ last.groq[3] = "200"
    /\ Len(calls) = 2
    /\ calls[1].voice = "Fritz-PlayAI" /\ calls[2].voice = "Bryan-PlayAI"
    /\ last.result = Some(<<"groq-b64", "Bryan-PlayAI">>)

-----------------------------------------------------------------------------
(* Properties of the error responses *)

(* C13: no response with status 500 carries the text of an exception: on    *)
(* every route, a failure that is not a missing-input 400 is answered with  *)
(* the generic body {success: false, error: "Internal Server Error",        *)
(* message} of the 500 handler.                                             *)
C13_No500ExposesDetail ==
    resp.status = 500 =>
        /\ resp.text # ExceptionText
        /\ resp = internal_error

-----------------------------------------------------------------------------
(* Properties of the calls /get issues *)

(* C14: every /get request with a msg issues exactly three outbound calls,  *)
(* in this order and none of them twice, whatever each call's outcome: the  *)
(* save of the user message, the answer computation for the msg, the save   *)
(* of the bot answer.  Both saves carry the session id of the response and  *)
(* the caller's bearer token, and the bot save's text is the answer         *)
(* returned (the apology when the pipeline failed).                         *)
C14_GetCallOrder ==
    req.route = "get" /\ Truthy(req.msg) =>
        /\ Len(calls) = 3
        /\ calls[1].op = "save" /\ calls[1].sender = "user"
        /\ calls[1].text = req.msg.val /\ calls[1].outcome = req.save1
        /\ calls[2].op = "rag"
        /\ calls[2].text = req.msg.val /\ calls[2].outcome = req.rag
        /\ calls[3].op = "save" /\ calls[3].sender = "bot"
        /\ calls[3].text = resp.text /\ calls[3].outcome = req.save2
        /\ resp.text = (IF req.rag = "ok" THEN RagAnswer(req.msg.val) ELSE AiApology)
        /\ resp.sid.has
        /\ calls[1].sid = resp.sid.val /\ calls[3].sid = resp.sid.val
        /\ calls[1].token = calls[3].token
        /\ (Truthy(req.header) => calls[1].token = bearer_token(req.header))

\* the first save timed out and the pipeline failed: still three calls, and
\* the apology was saved as the bot's message
C14_Witness ==
    /\ req.route = "get"
    /\ req.save1 = "timeout" /\ req.rag = "error"
    /\ Len(calls) = 3
    /\ calls[3].sender = "bot" /\ calls[3].text = AiApology
    /\ resp.text = AiApology

-----------------------------------------------------------------------------
(* Properties of the browser session id *)

\* the request just served got past the missing-input test of its route
Admitted(r) ==
    \/ r.route = "get" /\ Truthy(r.msg)
    \/ r.route = "voice-chat" /\ Truthy(r.audio)

(* C15: in one browser session, the first /get or /voice-chat request that  *)
(* is admitted (has its msg or audio) sets the session id to the caller's   *)
(* session_id when one was given and to 16 fresh hex characters otherwise;  *)
(* from then on no request changes it, whatever session_id it supplies; and *)
(* every response that names a session id, and every save, carries the      *)
(* browser session's id.                                                    *)
C15_SessionIdStable ==
    [][/\ (Truthy(session) => session' = session)
       /\ (~Truthy(session) /\ Admitted(req') =>
               /\ Truthy(session')
               /\ (Truthy(req'.session_id) => session' = req'.session_id)
               /\ (~Truthy(req'.session_id) =>
                       /\ session' = Some(req'.gen)
                       /\ Len(session'.val) = 16
                       /\ \A i \in 1..16 : session'.val[i] \in HexDigits))
       /\ (~Admitted(req') => session' = session)
       /\ (resp'.sid.has => resp'.sid = session')
       /\ (resp'.status = 200 => resp'.sid.has)
       /\ \A i \in 1..Len(calls') :
              calls'[i].op = "save" => calls'[i].sid = session'.val]_vars

\* a session established as s1 by /get served a /voice-chat request that
\* supplied s2: answered, and saved, under s1
C15_Witness ==
    /\ req.route = "voice-chat"
    /\ req.session_id = Some(<<"s", "2">>)
    /\ session = Some(<<"s", "1">>)
    /\ resp.status = 200 /\ resp.sid = Some(<<"s", "1">>)
    /\ Len(calls) = 5 /\ calls[2].op = "save" /\ calls[2].sid = <<"s", "1">>

-----------------------------------------------------------------------------
(* Properties of add_to_cache under concurrency *)

\* no add_to_cache call is under way
Quiescent == \A t \in Threads : ~Running(t)

\* the entry is in the backing document, as load_cache would read it
InDocument(e) ==
    LET doc == load_cache_result(cache_file)
    IN  \E j \in 1..Len(doc) : doc[j] = e

\* two entries share an id, or the document lacks an entry that is in memory
Inconsistent ==
    \/ ~UniqueIds(cache_data)
    \/ \E i \in 1..Len(cache_data) : ~InDocument(cache_data[i])

(* C16: between calls, two entries that share an id, or an entry in memory  *)
(* that the backing document lacks, are found only after add_to_cache calls *)
(* of different threads have overlapped; while every call ran alone, the    *)
(* ids are pairwise distinct and the document holds every entry in memory.  *)
C16_SerializedIsConsistent ==
    Quiescent /\ ~hist.overlapped => ~Inconsistent

\* two calls overlapped, every rewrite succeeded, and two entries share an id
C16_RaceWitness ==
    /\ Quiescent
    /\ hist.overlapped /\ ~hist.failed
    /\ ~UniqueIds(cache_data)
    /\ \A t \in Threads : threads[t].ok

-----------------------------------------------------------------------------
(* Properties of the tie-break of find_match *)

\* the entries whose score is the highest score
TopEntries == {i \in 1..Len(cache_data) : FracEq(ScoreOf(i), BestScore)}

(* C17: with a fuzzy library, whenever find_match reports a match, the      *)
(* answer, question and category returned are those of the first entry, in  *)
(* cache order, among the entries with the highest score; so of two entries *)
(* whose questions have the same normalised form the earlier one is         *)
(* returned.                                                                *)
C17_FirstOfTopScore ==
    Found /\ FUZZY_LIB # "none" /\ last.result.matched =>
        LET first == CHOOSE i \in TopEntries : \A j \in TopEntries : i <= j
        IN  /\ last.result.answer = Some(cache_data[first].answer)
            /\ last.result.question = Some(cache_data[first].question)
            /\ last.result.category = CategoryOf(cache_data[first])
            /\ \A j \in 1..Len(cache_data) :
                   preprocess_text(cache_data[j].question)
                       = preprocess_text(cache_data[first].question) => first <= j

\* two entries typed differently have the same normalised form and the top
\* score: the first one was returned, with its own question and category
C17_Witness ==
    /\ Found /\ FUZZY_LIB # "none" /\ last.result.matched
    /\ Len(cache_data) = 2
    /\ cache_data[1].question # cache_data[2].question
    /\ preprocess_text(cache_data[1].question) = preprocess_text(cache_data[2].question)
    /\ TopEntries = {1, 2}
    /\ last.result.answer = Some(cache_data[1].answer)
    /\ last.result.answer # Some(cache_data[2].answer)

-----------------------------------------------------------------------------
(* Properties of the branches of POST /whatsapp *)

\* the first media item is audio
AudioMedia(r) ==
    r.MediaUrl0 # <<>> /\ \E i \in 1..Len(r.MediaContentType0) :
                            r.MediaContentType0[i] \in {"audio", "AUDIO"}

\* whatsapp_<phone>, the phone being From without its whatsapp: prefix
WhatsappSession(r) ==
    <<"whatsapp_">> \o (IF r.From # <<>> /\ Head(r.From) = "whatsapp:" THEN Tail(r.From)
                         ELSE r.From)

(* C18: a /whatsapp message without audio media and with a non-empty text   *)
(* body issues the save of the text, the answer computation and the save of *)
(* the answer, in that order, under session id whatsapp_<phone>, and is     *)
(* answered with the answer; a message with neither audio media nor text    *)
(* issues no call and is answered with an empty acknowledgement; a message  *)
(* whose first media item is audio takes the voice branch (it starts with   *)
(* the download and never saves the text body), text body or not.           *)
C18_WhatsappBranches ==
    req.route = "whatsapp" /\ ~req.formError =>
        LET text == Strip(req.Body)
        IN  /\ (~AudioMedia(req) /\ text # <<>> =>
                    /\ Len(calls) = 3
                    /\ calls[1].op = "save" /\ calls[1].sender = "user"
                    /\ calls[1].text = text
                    /\ calls[2].op = "rag" /\ calls[2].text = text
                    /\ calls[3].op = "save" /\ calls[3].sender = "bot"
                    /\ calls[3].text = calls[2].result.val
                    /\ calls[1].sid = WhatsappSession(req)
                    /\ calls[3].sid = WhatsappSession(req)
                    /\ resp = Xml(calls[2].result))
            /\ (~AudioMedia(req) /\ text = <<>> =>
                    calls = <<>> /\ resp = Xml(None))
            /\ (AudioMedia(req) =>
                    /\ calls # <<>>
                    /\ calls[1].op = "download" /\ calls[1].text = req.MediaUrl0
                    /\ \A i \in 1..Len(calls) :
                           /\ calls[i].op = "save" /\ calls[i].sender = "user" =>
                                   calls[i].text = Transcript /\ calls[i].audio.has
                           /\ calls[i].op = "save" => calls[i].sid = WhatsappSession(req))

\* a voice note sent with a caption: downloaded, transcribed and answered as
\* a voice message
C18_Witness ==
    /\ req.route = "whatsapp" /\ ~req.formError
    /\ AudioMedia(req)
    /\ Strip(req.Body) # <<>> /\ Strip(req.Body) # Transcript
    /\ Len(calls) = 5
    /\ calls[1].op = "download" /\ calls[2].op = "stt"
    /\ calls[3].op = "save" /\ calls[3].text = Transcript

-----------------------------------------------------------------------------
(* Properties of preprocess_text *)

\* no space at either end and no two spaces in a row
FullyNormalized(s) ==
    /\ (s # <<>> => s[1] # SP /\ s[Len(s)] # SP)
    /\ \A i \in 1..(Len(s) - 1) : ~(s[i] = SP /\ s[i + 1] = SP)

(* C19: the output of preprocess_text has no leading space, no trailing      *)
(* space and no run of two or more spaces, and preprocess_text applied to   *)
(* its own output gives that output again.                                  *)
C19_PreprocessIdempotent ==
    last.op = "preprocess_text" =>
        /\ (Len(last.out) >= 1 => FullyNormalized(last.out[1]))
        /\ (Len(last.out) = 2 => last.out[2] = last.out[1])

-----------------------------------------------------------------------------
(* Properties of a failed add_to_cache *)

(* C20: after an add_to_cache call that returned failure, the collection in *)
(* memory is the collection the call found: the new entry is not in it.     *)
C20_FailedAddLeavesMemory ==
    Added /\ ~last.ok => cache_data = last.before

-----------------------------------------------------------------------------
(* Properties of a voice request that cannot be transcribed *)

\* the request carries recorded speech: any /voice-chat request, and a
\* /whatsapp message whose first media item is audio
VoiceNote ==
    \/ req.route = "voice-chat"
    \/ req.route = "whatsapp" /\ ~req.formError /\ AudioMedia(req)

\* the i-th outbound call is a transcription that returned a non-empty text
TranscribedAt(i) == calls[i].op = "stt" /\ Truthy(calls[i].result)

\* the i-th outbound call stores a message or computes an answer
PersistsAt(i) == calls[i].op \in {"save", "rag"}

\* the audio was not downloaded, or no transcription returned a text
NotTranscribed ==
    \/ \E i \in 1..Len(calls) : calls[i].op = "download" /\ calls[i].outcome # "200"
    \/ ~\E i \in 1..Len(calls) : TranscribedAt(i)

(* C21: in /voice-chat and in the voice branch of /whatsapp, every message  *)
(* save and every answer computation comes after a transcription that       *)
(* returned a non-empty text; a request whose audio was not downloaded or   *)
(* not transcribed issues no save (neither of a user nor of a bot message)  *)
(* and no answer computation.                                               *)
C21_FailedVoicePersistsNothing ==
    VoiceNote =>
        /\ \A i \in 1..Len(calls) :
               PersistsAt(i) => \E j \in 1..(i - 1) : TranscribedAt(j)
        /\ (NotTranscribed => \A i \in 1..Len(calls) : ~PersistsAt(i))

\* a voice note that was downloaded and whose transcription came back empty:
\* the apology, and nothing but the download and the transcription went out
C21_Witness ==
    /\ req.route = "whatsapp" /\ AudioMedia(req)
    /\ req.download = "200" /\ req.stt # "text"
    /\ Len(calls) = 2
    /\ calls[1].op = "download" /\ calls[2].op = "stt" /\ ~Truthy(calls[2].result)
    /\ resp = Xml(Some(VoiceApology))

=============================================================================
